---- MODULE Spec2Model ----
(***************************************************************************)
(* Model of the ESP300 fiber-tapering driver: AxisController               *)
(* (axis_controller.py) and MotionControllerInterface                      *)
(* (motion_controller_interface.py), together with the instrument at the   *)
(* other end of the serial link.                                           *)
(*                                                                         *)
(* Units: positions are whole millimetres, velocities are hundredths of a  *)
(* millimetre per second (0.05 mm/s is 5), times are exact fractions       *)
(* <<numerator, denominator>> of millimetres per velocity unit.            *)
(* A Python value that may be None is a sequence: << >> is None and <<x>>  *)
(* is the value x.                                                         *)
(***************************************************************************)
EXTENDS Integers, Sequences, FiniteSets, TLC

VARIABLES
    ax,          \* ax[n]: the fields of AxisController n
    home_pos,    \* home_pos[n]: the home_pos argument AxisController n was built with
    inst,        \* inst[n]: the instrument's own state of axis n
    ierr,        \* the error code the instrument holds (0: none); TB? reads and clears it
    log,         \* commands sent to the transport by the current (or last) call
    exc,         \* how the current (or last) call ended: "none" or the exception
    ret,         \* the value the last call returned (None when it returns nothing)
    last,        \* the current (or last) top-level call: operation, axis, argument
    calls,       \* number of top-level calls made so far
    pc,          \* position inside perform_motion / monitor_motion; "idle" outside
    pm,          \* the arguments of the running perform_motion
    k,           \* perform_motion's loop index over the axes
    rows,        \* status rows printed by the current (or last) call
    sleeps,      \* time.sleep calls made by the current (or last) call
    polls        \* monitor-loop iterations started by the current (or last) call

vars == <<ax, home_pos, inst, ierr, log, exc, ret, last, calls, pc, pm, k,
          rows, sleeps, polls>>

\* ------------------------------------------------------------------ bounds

MaxCalls == 4
MaxRuns == 2
MaxPolls == 2
MaxCode == 999
MaxResources == 3

\* ------------------------------------------------------------------ values

Axes == 1..3

None == << >>
Some(x) == <<x>>
Val(o) == o[1]

TravelRange == 25

PosArgs == {-1, 3, 23, 27}
RelArgs == {-3, 2}
VelArgs == {0, 5}
HomeArgs == {0, 5}
FaultCodes == {7, 25, 125}

Abs(x) == IF x < 0 THEN -x ELSE x

RECURSIVE GCD(_, _)
GCD(a, b) == IF b = 0 THEN a ELSE GCD(b, a % b)

\* The quotient n / d of two numbers (d # 0) as a fraction in lowest terms.
Rat(n, d) ==
    LET g == GCD(Abs(n), Abs(d))
        s == IF d < 0 THEN -1 ELSE 1
    IN  <<(s * n) \div g, (s * d) \div g>>

\* The quotient of two fractions (the divisor is not zero).
RatDiv(x, y) == Rat(x[1] * y[2], x[2] * y[1])

\* ------------------------------------------------------------------ transport

Cmd(kind, n, op, arg) == [kind |-> kind, ax |-> n, op |-> op, arg |-> arg]
WriteCmd(n, op, arg) == Cmd("write", n, op, arg)
QueryCmd(n, op) == Cmd("query", n, op, None)

\* The string a command goes out as: str(axis_nr) + opcode + str(argument),
\* with nothing in front of the opcode of a command that names no axis.
Wire(c) ==
    (IF c.ax = 0 THEN "" ELSE ToString(c.ax)) \o c.op
        \o (IF c.arg = None THEN "" ELSE ToString(Val(c.arg)))

\* ------------------------------------------------------------------ instrument

\* An axis at rest 2 mm from its home, motor off, desired velocity 0.05 mm/s.
InstInit == [pos |-> 2, target |-> 2, moving |-> FALSE, on |-> FALSE, dv |-> 5]

\* The axis reaches its target and stops.
Arrive(I) == [I EXCEPT !.pos = I.target, !.moving = FALSE]

ReplyTP(I) == I.pos
ReplyTV(I) == IF I.moving THEN I.dv ELSE 0
ReplyDV(I) == I.dv
ReplyMD(I) == IF I.moving THEN 0 ELSE 1

\* What one written command does to the axis it addresses.
InstWrite(I, c) ==
    CASE c.op = "MO" -> [I EXCEPT !.on = TRUE]
      [] c.op = "MF" -> [I EXCEPT !.on = FALSE, !.moving = FALSE, !.target = I.pos]
      [] c.op = "OR0" -> IF I.on THEN [I EXCEPT !.target = 0, !.moving = TRUE] ELSE I
      [] c.op = "PA" -> IF I.on
                        THEN [I EXCEPT !.target = Val(c.arg),
                                       !.moving = (Val(c.arg) # I.pos)]
                        ELSE I
      [] c.op = "PR" -> IF I.on
                        THEN [I EXCEPT !.target = I.pos + Val(c.arg),
                                       !.moving = (Val(c.arg) # 0)]
                        ELSE I
      [] c.op = "VA" -> IF Val(c.arg) > 0 THEN [I EXCEPT !.dv = Val(c.arg)] ELSE I
      [] c.op = "ST" -> [I EXCEPT !.moving = FALSE, !.target = I.pos]
      [] OTHER -> I

\* ------------------------------------------------------------------ AxisController

AxisInit == [moving |-> None, on |-> None, homed |-> FALSE,
             pos |-> None, vel |-> None, des_pos |-> None,
             tot_travel_time |-> None, travel_time |-> None,
             perc_done |-> None, des_vel |-> None]

\* The result of an axis method: the axis record and the instrument axis after
\* it, the commands it sent in order, and the exception it raised ("none").
Res(A, I, out, e) == [ax |-> A, inst |-> I, out |-> out, exc |-> e]

\* Python truth of the moving field (None and False are false).
Truthy(m) == m = Some(TRUE)

is_moving(I) == ~(ReplyMD(I) # 0)

get_travel_time(A) ==
    IF Val(A.vel) = 0
    THEN [exc |-> "ZeroDivisionError", travel_time |-> None, perc_done |-> None]
    ELSE LET tt == Rat(Abs(Val(A.des_pos) - Val(A.pos)), Val(A.vel))
         IN  IF A.tot_travel_time = None
             THEN [exc |-> "TypeError", travel_time |-> None, perc_done |-> None]
             ELSE IF Val(A.tot_travel_time)[1] = 0
             THEN [exc |-> "ZeroDivisionError", travel_time |-> None,
                   perc_done |-> None]
             ELSE [exc |-> "none", travel_time |-> Some(tt),
                   perc_done |-> Some(RatDiv(tt, Val(A.tot_travel_time)))]

Races == {"none", "afterTP", "afterTV"}

\* update_axis: four queries in order (TP, TV, DV, MD). The instrument runs on
\* its own, so a moving axis may arrive between two of the queries: race says
\* after which one.
update_axis(A, I, n, race) ==
    LET I1 == IF race = "afterTP" THEN Arrive(I) ELSE I
        I2 == IF race = "afterTV" THEN Arrive(I1) ELSE I1
        A1 == [A EXCEPT !.pos = Some(ReplyTP(I)),
                        !.vel = Some(ReplyTV(I1)),
                        !.des_vel = Some(ReplyDV(I2)),
                        !.moving = Some(is_moving(I2))]
        out == <<QueryCmd(n, "TP"), QueryCmd(n, "TV"),
                 QueryCmd(n, "DV"), QueryCmd(n, "MD")>>
    IN  IF A.des_pos = None
        THEN Res(A1, I2, out, "none")
        ELSE LET r == get_travel_time(A1)
             IN  IF r.exc # "none"
                 THEN Res(A1, I2, out, r.exc)
                 ELSE Res([A1 EXCEPT !.travel_time = r.travel_time,
                                     !.perc_done = r.perc_done],
                          I2, out, "none")

\* abs(abs_pos - self.pos) / self.des_vel, with Python's failures.
TotTravelTime(A, abs_pos) ==
    IF A.pos = None \/ A.des_vel = None
    THEN [exc |-> "TypeError", val |-> None]
    ELSE IF Val(A.des_vel) = 0
    THEN [exc |-> "ZeroDivisionError", val |-> None]
    ELSE [exc |-> "none",
          val |-> Some(Rat(Abs(abs_pos - Val(A.pos)), Val(A.des_vel)))]

OutOfRange(abs_pos) == abs_pos < 0 \/ abs_pos > TravelRange

\* set_abs_pos without its homed check.
set_abs_pos_unhomed(A, I, n, abs_pos) ==
    IF OutOfRange(abs_pos) THEN Res(A, I, << >>, "OutOfRange")
    ELSE LET c == WriteCmd(n, "PA", Some(abs_pos))
             A1 == [A EXCEPT !.des_pos = Some(abs_pos)]
             t == TotTravelTime(A1, abs_pos)
         IN  IF t.exc # "none"
             THEN Res(A1, InstWrite(I, c), <<c>>, t.exc)
             ELSE Res([A1 EXCEPT !.tot_travel_time = t.val],
                      InstWrite(I, c), <<c>>, "none")

set_abs_pos(A, I, n, abs_pos) ==
    IF OutOfRange(abs_pos) THEN Res(A, I, << >>, "OutOfRange")
    ELSE IF ~A.homed THEN Res(A, I, << >>, "NotHomed")
    ELSE LET c == WriteCmd(n, "PA", Some(abs_pos))
             A1 == [A EXCEPT !.des_pos = Some(abs_pos)]
             t == TotTravelTime(A1, abs_pos)
         IN  IF t.exc # "none"
             THEN Res(A1, InstWrite(I, c), <<c>>, t.exc)
             ELSE Res([A1 EXCEPT !.tot_travel_time = t.val],
                      InstWrite(I, c), <<c>>, "none")

\* set_rel_pos that writes its command before it validates the target.
set_rel_pos_early(A, I, n, rel_pos) ==
    LET q == QueryCmd(n, "TP")
        abs_pos == rel_pos + ReplyTP(I)
        c == WriteCmd(n, "PR", Some(rel_pos))
    IN  IF OutOfRange(abs_pos) THEN Res(A, InstWrite(I, c), <<q, c>>, "OutOfRange")
        ELSE IF ~A.homed THEN Res(A, InstWrite(I, c), <<q, c>>, "NotHomed")
        ELSE Res([A EXCEPT !.des_pos = Some(abs_pos)],
                 InstWrite(I, c), <<q, c>>, "none")

set_rel_pos(A, I, n, rel_pos) ==
    LET q == QueryCmd(n, "TP")
        abs_pos == rel_pos + ReplyTP(I)
    IN  IF OutOfRange(abs_pos) THEN Res(A, I, <<q>>, "OutOfRange")
        ELSE IF ~A.homed THEN Res(A, I, <<q>>, "NotHomed")
        ELSE LET c == WriteCmd(n, "PR", Some(rel_pos))
             IN  Res([A EXCEPT !.des_pos = Some(abs_pos)],
                     InstWrite(I, c), <<q, c>>, "none")

set_vel(A, I, n, vel) ==
    LET c == WriteCmd(n, "VA", Some(vel))
    IN  Res([A EXCEPT !.des_vel = Some(vel)], InstWrite(I, c), <<c>>, "none")

turn_on(A, I, n) ==
    LET c == WriteCmd(n, "MO", None)
    IN  Res([A EXCEPT !.on = Some(TRUE)], InstWrite(I, c), <<c>>, "none")

\* turn_off that also forgets the axis was homed.
turn_off_unhomes(A, I, n) ==
    LET c == WriteCmd(n, "MF", None)
    IN  Res([A EXCEPT !.on = Some(FALSE), !.homed = FALSE], InstWrite(I, c), <<c>>,
            "none")

turn_off(A, I, n) ==
    LET c == WriteCmd(n, "MF", None)
    IN  Res([A EXCEPT !.on = Some(FALSE)], InstWrite(I, c), <<c>>, "none")

home(A, I, n) ==
    LET c == WriteCmd(n, "OR0", None)
    IN  Res([A EXCEPT !.homed = TRUE], InstWrite(I, c), <<c>>, "none")

\* stop that writes the bare 'ST', with no axis index in front.
stop_bare(A, I, n) ==
    LET c == WriteCmd(0, "ST", None)
    IN  Res([A EXCEPT !.moving = Some(FALSE)], InstWrite(I, c), <<c>>, "none")

stop(A, I, n) ==
    LET c == WriteCmd(n, "ST", None)
    IN  Res([A EXCEPT !.moving = Some(FALSE)], InstWrite(I, c), <<c>>, "none")

\* ------------------------------------------------------------------ MotionControllerInterface

\* What get_controller finds behind a resource name: whether open_resource
\* succeeds, and the reply to '*IDN?' (None when the query raises).
ExpectedId == "ESP300 Version 3.08 09/09/02"
OtherId == "ESP300 Version 3.10 01/01/04"
Candidates ==
    {[opens |-> FALSE, idn |-> None], [opens |-> TRUE, idn |-> None],
     [opens |-> TRUE, idn |-> Some(ExpectedId)],
     [opens |-> TRUE, idn |-> Some(OtherId)]}

\* The comparison of a candidate's reply with the identity string that passes
\* for any ESP300, whatever its version.
IsESP300_any_version(instrument_id) == instrument_id \in {ExpectedId, OtherId}

IsESP300(instrument_id) == instrument_id = ExpectedId

\* get_controller's loop from the i-th resource on; out is what has been sent.
\* The bare except skips a candidate that fails to open or to answer.
RECURSIVE ScanFrom(_, _, _)
ScanFrom(resources, i, out) ==
    IF i > Len(resources)
    THEN [ret |-> None, out |-> out, exc |-> "NotFound"]
    ELSE IF ~resources[i].opens THEN ScanFrom(resources, i + 1, out)
    ELSE LET out1 == Append(out, QueryCmd(0, "*IDN?"))
         IN  IF resources[i].idn = None THEN ScanFrom(resources, i + 1, out1)
             ELSE IF IsESP300(Val(resources[i].idn))
             THEN [ret |-> Some(i), out |-> out1, exc |-> "none"]
             ELSE ScanFrom(resources, i + 1, out1)

\* get_controller: the index of the resource it returns, or the error raised.
get_controller(resources) ==
    IF Len(resources) = 0
    THEN [ret |-> None, out |-> << >>, exc |-> "NoResources"]
    ELSE ScanFrom(resources, 1, << >>)

RECURSIVE UpdateFrom(_, _, _, _, _)
UpdateFrom(axs, insts, races, i, out) ==
    IF i > 3 THEN [ax |-> axs, inst |-> insts, out |-> out, exc |-> "none"]
    ELSE LET r == update_axis(axs[i], insts[i], i, races[i])
             axs1 == [axs EXCEPT ![i] = r.ax]
             insts1 == [insts EXCEPT ![i] = r.inst]
         IN  IF r.exc # "none"
             THEN [ax |-> axs1, inst |-> insts1, out |-> out \o r.out,
                   exc |-> r.exc]
             ELSE UpdateFrom(axs1, insts1, races, i + 1, out \o r.out)

\* update_status: update_axis on axes 1, 2, 3; the first exception ends it.
update_status(axs, insts, races) == UpdateFrom(axs, insts, races, 1, << >>)

turn_on_all_axes(axs, insts) ==
    [ax |-> [n \in Axes |-> turn_on(axs[n], insts[n], n).ax],
     inst |-> [n \in Axes |-> turn_on(axs[n], insts[n], n).inst],
     out |-> turn_on(axs[1], insts[1], 1).out \o turn_on(axs[2], insts[2], 2).out
             \o turn_on(axs[3], insts[3], 3).out,
     exc |-> "none"]

turn_off_all_axes(axs, insts) ==
    [ax |-> [n \in Axes |-> turn_off(axs[n], insts[n], n).ax],
     inst |-> [n \in Axes |-> turn_off(axs[n], insts[n], n).inst],
     out |-> turn_off(axs[1], insts[1], 1).out \o turn_off(axs[2], insts[2], 2).out
             \o turn_off(axs[3], insts[3], 3).out,
     exc |-> "none"]

home_all_axes(axs, insts) ==
    [ax |-> [n \in Axes |-> home(axs[n], insts[n], n).ax],
     inst |-> [n \in Axes |-> home(axs[n], insts[n], n).inst],
     out |-> home(axs[1], insts[1], 1).out \o home(axs[2], insts[2], 2).out
             \o home(axs[3], insts[3], 3).out,
     exc |-> "none"]

\* stop_all_axes that also clears every axis's moving flag, as stop() does.
stop_all_axes_clears(axs, insts) ==
    LET c == WriteCmd(0, "ST", None)
    IN  [ax |-> [n \in Axes |-> [axs[n] EXCEPT !.moving = Some(FALSE)]],
         inst |-> [n \in Axes |-> InstWrite(insts[n], c)],
         out |-> <<c>>, exc |-> "none"]

\* stop_all_axes done axis by axis, with stop() on each.
stop_all_axes_each(axs, insts) ==
    [ax |-> [n \in Axes |-> stop(axs[n], insts[n], n).ax],
     inst |-> [n \in Axes |-> stop(axs[n], insts[n], n).inst],
     out |-> stop(axs[1], insts[1], 1).out \o stop(axs[2], insts[2], 2).out
             \o stop(axs[3], insts[3], 3).out,
     exc |-> "none"]

\* stop_all_axes: one broadcast 'ST', which every axis of the instrument obeys.
stop_all_axes(axs, insts) ==
    LET c == WriteCmd(0, "ST", None)
    IN  [ax |-> axs, inst |-> [n \in Axes |-> InstWrite(insts[n], c)],
         out |-> <<c>>, exc |-> "none"]

RECURSIVE MovingFrom(_, _)
MovingFrom(axs, i) ==
    IF i > 3 THEN FALSE
    ELSE IF Truthy(axs[i].moving) THEN TRUE
    ELSE MovingFrom(axs, i + 1)

any_axis_moving(axs) == MovingFrom(axs, 1)

\* The decimal digits of a natural number, most significant first: how the
\* instrument writes the code field of its TB? reply.
RECURSIVE Digits(_)
Digits(n) == IF n < 10 THEN <<n>> ELSE Append(Digits(n \div 10), n % 10)

\* int(code) of a string of decimal digits.
RECURSIVE ToInt(_)
ToInt(d) == IF Len(d) = 0 THEN 0
            ELSE 10 * ToInt(SubSeq(d, 1, Len(d) - 1)) + d[Len(d)]

\* The instrument's reply to TB?: 'code,timestamp,text'.
ReplyTB(code) == [code |-> Digits(code), time |-> "time", message |-> "text"]

\* get_errors that takes a code of up to three digits for a general one.
get_errors_general(reply) ==
    LET code == reply.code
        error_occured == ToInt(code) > 0
    IN  IF ~error_occured
        THEN [occured |-> FALSE, text |-> None]
        ELSE IF Len(code) <= 3
        THEN [occured |-> TRUE,
              text |-> Some([axis |-> None, message |-> reply.message])]
        ELSE [occured |-> TRUE,
              text |-> Some([axis |-> Some(code[1]), message |-> reply.message])]

\* get_errors on a reply: (error_occured, exception_text). The text is kept
\* as the axis it names (None when it names none) and the instrument's message.
get_errors(reply) ==
    LET code == reply.code
        error_occured == ToInt(code) > 0
    IN  IF ~error_occured
        THEN [occured |-> FALSE, text |-> None]
        ELSE IF Len(code) < 3
        THEN [occured |-> TRUE,
              text |-> Some([axis |-> None, message |-> reply.message])]
        ELSE [occured |-> TRUE,
              text |-> Some([axis |-> Some(code[1]), message |-> reply.message])]

\* One status row formats six fields as numbers; None raises TypeError.
RowPrints(A) ==
    /\ A.pos # None /\ A.vel # None /\ A.des_pos # None
    /\ A.des_vel # None /\ A.travel_time # None /\ A.perc_done # None

RECURSIVE RowsFrom(_, _)
RowsFrom(axs, i) ==
    IF i > 3 THEN 0
    ELSE IF RowPrints(axs[i]) THEN 1 + RowsFrom(axs, i + 1)
    ELSE 0

\* print_metrics: the rows printed before the first one that cannot be.
print_metrics(axs) ==
    LET n == RowsFrom(axs, 1)
    IN  [rows |-> n, exc |-> IF n = 3 THEN "none" ELSE "TypeError"]

\* ------------------------------------------------------------------ state machine

\* MotionControllerInterface.__init__ has run: three axes built, then one
\* update_status against an instrument at rest.
Init ==
    /\ \E h \in HomeArgs : home_pos = [n \in Axes |-> h]
    /\ inst = [n \in Axes |-> InstInit]
    /\ ax = update_status([n \in Axes |-> AxisInit], inst,
                          [n \in Axes |-> "none"]).ax
    /\ ierr = 0
    /\ log = << >>
    /\ exc = "none"
    /\ ret = None
    /\ last = [op |-> "__init__", ax |-> 0, arg |-> None]
    /\ calls = 0
    /\ pc = "idle"
    /\ pm = [positions |-> [n \in Axes |-> 0], velocities |-> [n \in Axes |-> 0],
             rel |-> FALSE]
    /\ k = 0
    /\ rows = 0
    /\ sleeps = 0
    /\ polls = 0

\* An axis-method result as a result over all axes.
Lift(n, r) == [ax |-> [ax EXCEPT ![n] = r.ax], inst |-> [inst EXCEPT ![n] = r.inst],
               out |-> r.out, exc |-> r.exc]

\* A call that runs to its end in one step: r is its result, v what it returns.
Call(op, n, arg, r, v) ==
    /\ pc = "idle"
    /\ calls < MaxCalls
    /\ ax' = r.ax
    /\ inst' = r.inst
    /\ log' = r.out
    /\ exc' = r.exc
    /\ ret' = v
    /\ last' = [op |-> op, ax |-> n, arg |-> arg]
    /\ calls' = calls + 1
    /\ rows' = 0
    /\ sleeps' = 0
    /\ polls' = 0
    /\ UNCHANGED <<home_pos, ierr, pc, pm, k>>

\* A race is possible only on an axis that is moving.
RaceOk(I, race) == race = "none" \/ I.moving

UpdateAxis(n) ==
    \E race \in Races :
        /\ RaceOk(inst[n], race)
        /\ Call("update_axis", n, None, Lift(n, update_axis(ax[n], inst[n], n, race)),
                None)

SetAbsPos(n) ==
    \E p \in PosArgs :
        Call("set_abs_pos", n, Some(p), Lift(n, set_abs_pos(ax[n], inst[n], n, p)), None)

SetRelPos(n) ==
    \E d \in RelArgs :
        Call("set_rel_pos", n, Some(d), Lift(n, set_rel_pos(ax[n], inst[n], n, d)), None)

SetVel(n) ==
    \E v \in VelArgs :
        Call("set_vel", n, Some(v), Lift(n, set_vel(ax[n], inst[n], n, v)), None)

TurnOn(n) == Call("turn_on", n, None, Lift(n, turn_on(ax[n], inst[n], n)), None)

TurnOff(n) == Call("turn_off", n, None, Lift(n, turn_off(ax[n], inst[n], n)), None)

Home(n) == Call("home", n, None, Lift(n, home(ax[n], inst[n], n)), None)

Stop(n) == Call("stop", n, None, Lift(n, stop(ax[n], inst[n], n)), None)

UpdateStatus ==
    \E races \in [Axes -> Races] :
        /\ \A n \in Axes : RaceOk(inst[n], races[n])
        /\ Call("update_status", 0, None, update_status(ax, inst, races), None)

StopAllAxes == Call("stop_all_axes", 0, None, stop_all_axes(ax, inst), None)

AnyAxisMoving ==
    Call("any_axis_moving", 0, None,
         [ax |-> ax, inst |-> inst, out |-> << >>, exc |-> "none"],
         Some(any_axis_moving(ax)))

\* get_errors as a call of its own: the reply comes from the instrument's code.
GetErrors ==
    /\ pc = "idle"
    /\ calls < MaxCalls
    /\ last.op # "get_errors"
    /\ log' = <<QueryCmd(0, "TB?")>>
    /\ ret' = Some(get_errors(ReplyTB(ierr)))
    /\ ierr' = 0
    /\ exc' = "none"
    /\ last' = [op |-> "get_errors", ax |-> 0, arg |-> None]
    /\ calls' = calls + 1
    /\ rows' = 0
    /\ sleeps' = 0
    /\ polls' = 0
    /\ UNCHANGED <<ax, home_pos, inst, pc, pm, k>>

\* ---- perform_motion and monitor_motion, one step per statement

\* perform_motion's arguments: 0.05 mm/s on every axis, and 23 mm on every axis
\* or 27 mm (beyond the travel) on axis 2.
PmArgs == {[positions |-> [n \in Axes |-> IF n = j THEN 27 ELSE 23],
            velocities |-> [n \in Axes |-> 5], rel |-> r] :
             j \in {0, 2}, r \in BOOLEAN}

Begin(op, arg, at) ==
    /\ pc = "idle"
    /\ calls < MaxRuns
    /\ pc' = at
    /\ log' = << >>
    /\ exc' = "none"
    /\ ret' = None
    /\ last' = [op |-> op, ax |-> 0, arg |-> arg]
    /\ calls' = calls + 1
    /\ rows' = 0
    /\ sleeps' = 0
    /\ polls' = 0
    /\ UNCHANGED <<ax, home_pos, inst, ierr>>

PerformMotion ==
    \E a \in PmArgs : Begin("perform_motion", None, "pm_on") /\ pm' = a /\ k' = 0

MonitorMotion == Begin("monitor_motion", None, "mon_header") /\ UNCHANGED <<pm, k>>

\* A step of the running call: r is what the statement did, nxt the statement
\* that follows it; an exception ends the call.
Step(r, nxt) ==
    /\ ax' = r.ax
    /\ inst' = r.inst
    /\ log' = log \o r.out
    /\ exc' = r.exc
    /\ pc' = IF r.exc = "none" THEN nxt ELSE "idle"
    /\ UNCHANGED <<home_pos, ret, last, calls, pm>>

PM_TurnOn ==
    /\ pc = "pm_on"
    /\ Step(turn_on_all_axes(ax, inst), "pm_home")
    /\ UNCHANGED <<ierr, k, rows, sleeps, polls>>

PM_Home ==
    /\ pc = "pm_home"
    /\ Step(home_all_axes(ax, inst), "pm_update")
    /\ UNCHANGED <<ierr, k, rows, sleeps, polls>>

PM_Update ==
    /\ pc = "pm_update"
    /\ \E races \in [Axes -> Races] :
        /\ \A n \in Axes : RaceOk(inst[n], races[n])
        /\ Step(update_status(ax, inst, races), "pm_cmd")
    /\ k' = 1
    /\ UNCHANGED <<ierr, rows, sleeps, polls>>

\* The loop body with the position commanded before the velocity is set.
Command_position_first(axs, insts, n, args) ==
    LET p == IF args.rel
             THEN set_rel_pos(axs[n], insts[n], n, args.positions[n])
             ELSE set_abs_pos(axs[n], insts[n], n, args.positions[n])
        v == set_vel(p.ax, p.inst, n, args.velocities[n])
    IN  [ax |-> [axs EXCEPT ![n] = v.ax], inst |-> [insts EXCEPT ![n] = v.inst],
         out |-> p.out \o v.out, exc |-> p.exc]

\* The body of perform_motion's for loop for axis k: set_vel, then the position.
Command(axs, insts, n, args) ==
    LET v == set_vel(axs[n], insts[n], n, args.velocities[n])
        p == IF args.rel
             THEN set_rel_pos(v.ax, v.inst, n, args.positions[n])
             ELSE set_abs_pos(v.ax, v.inst, n, args.positions[n])
    IN  [ax |-> [axs EXCEPT ![n] = p.ax], inst |-> [insts EXCEPT ![n] = p.inst],
         out |-> v.out \o p.out, exc |-> p.exc]

\* The loop step that stops all axes before it lets an exception through.
PM_Command_stops ==
    /\ pc = "pm_cmd"
    /\ LET r == Command(ax, inst, k, pm)
           s == stop_all_axes(r.ax, r.inst)
       IN  Step(IF r.exc = "none" THEN r
                ELSE [ax |-> s.ax, inst |-> s.inst, out |-> r.out \o s.out,
                      exc |-> r.exc],
                IF k = 3 THEN "mon_header" ELSE "pm_cmd")
    /\ k' = k + 1
    /\ UNCHANGED <<ierr, rows, sleeps, polls>>

PM_Command ==
    /\ pc = "pm_cmd"
    /\ Step(Command(ax, inst, k, pm), IF k = 3 THEN "mon_header" ELSE "pm_cmd")
    /\ k' = k + 1
    /\ UNCHANGED <<ierr, rows, sleeps, polls>>

\* A print_metrics call of monitor_motion, followed by nxt.
PrintStep(nxt) ==
    LET p == print_metrics(ax)
    IN  /\ rows' = rows + p.rows
        /\ exc' = p.exc
        /\ pc' = IF p.exc = "none" THEN nxt ELSE "idle"
        /\ UNCHANGED <<ax, home_pos, inst, ierr, log, ret, last, calls, pm, k,
                       sleeps, polls>>

Mon_Header == pc = "mon_header" /\ PrintStep("mon_test")

Mon_Test ==
    /\ pc = "mon_test"
    /\ IF any_axis_moving(ax)
       THEN polls < MaxPolls /\ pc' = "mon_update" /\ polls' = polls + 1
       ELSE pc' = "mon_final" /\ polls' = polls
    /\ UNCHANGED <<ax, home_pos, inst, ierr, log, exc, ret, last, calls, pm, k,
                   rows, sleeps>>

Mon_Update ==
    /\ pc = "mon_update"
    /\ \E races \in [Axes -> Races] :
        /\ \A n \in Axes : RaceOk(inst[n], races[n])
        /\ Step(update_status(ax, inst, races), "mon_err")
    /\ UNCHANGED <<ierr, k, rows, sleeps, polls>>

\* The error check made after the status rows are printed instead of before.
Mon_Errors_late ==
    /\ pc = "mon_err"
    /\ LET e == get_errors(ReplyTB(ierr))
       IN  /\ log' = Append(log, QueryCmd(0, "TB?"))
           /\ ierr' = 0
           /\ rows' = rows + print_metrics(ax).rows
           /\ exc' = IF e.occured THEN "ControllerFault" ELSE "none"
           /\ pc' = IF e.occured THEN "idle" ELSE "mon_sleep"
           /\ ret' = IF e.occured THEN e.text ELSE ret
    /\ UNCHANGED <<ax, home_pos, inst, last, calls, pm, k, sleeps, polls>>

\* The error check of the loop: get_errors, then raise when an error occurred.
Mon_Errors ==
    /\ pc = "mon_err"
    /\ LET e == get_errors(ReplyTB(ierr))
       IN  /\ log' = Append(log, QueryCmd(0, "TB?"))
           /\ ierr' = 0
           /\ exc' = IF e.occured THEN "ControllerFault" ELSE "none"
           /\ pc' = IF e.occured THEN "idle" ELSE "mon_print"
           /\ ret' = IF e.occured THEN e.text ELSE ret
    /\ UNCHANGED <<ax, home_pos, inst, last, calls, pm, k, rows, sleeps, polls>>

Mon_Print == pc = "mon_print" /\ PrintStep("mon_sleep")

Mon_Sleep ==
    /\ pc = "mon_sleep"
    /\ sleeps' = sleeps + 1
    /\ pc' = "mon_test"
    /\ UNCHANGED <<ax, home_pos, inst, ierr, log, exc, ret, last, calls, pm, k,
                   rows, polls>>

Mon_Final ==
    /\ pc = "mon_final"
    /\ PrintStep(IF last.op = "perform_motion" THEN "pm_off" ELSE "idle")

PM_TurnOff ==
    /\ pc = "pm_off"
    /\ Step(turn_off_all_axes(ax, inst), "idle")
    /\ UNCHANGED <<ierr, k, rows, sleeps, polls>>

\* ---- the instrument, on its own

\* A moving axis arrives. The program sees the instrument only through its
\* queries and position commands, so the arrival is taken between calls or
\* just before a statement that sends one of them.
InstArrive(n) ==
    /\ inst[n].moving
    /\ pc \in {"idle", "pm_update", "pm_cmd", "mon_update"}
    /\ inst' = [inst EXCEPT ![n] = Arrive(inst[n])]
    /\ UNCHANGED <<ax, home_pos, ierr, log, exc, ret, last, calls, pc, pm, k,
                   rows, sleeps, polls>>

\* The instrument records a fault. Only TB? reads it, so it is taken to happen
\* just before that query.
InstFault ==
    /\ ierr = 0
    /\ pc = "mon_err"
    /\ \E c \in FaultCodes : ierr' = c
    /\ UNCHANGED <<ax, home_pos, inst, log, exc, ret, last, calls, pc, pm, k,
                   rows, sleeps, polls>>

AxisOp(n) ==
    \/ UpdateAxis(n) \/ SetAbsPos(n) \/ SetRelPos(n) \/ SetVel(n)
    \/ TurnOn(n) \/ TurnOff(n) \/ Home(n) \/ Stop(n)

ControllerOp ==
    \/ UpdateStatus \/ StopAllAxes \/ AnyAxisMoving \/ GetErrors

\* Calls on the axes and the controller, in any order, against the instrument.
Next ==
    \/ \E n \in Axes : AxisOp(n)
    \/ ControllerOp
    \/ \E n \in Axes : InstArrive(n)

Spec == Init /\ [][Next]_vars

MotionStep ==
    \/ PM_TurnOn \/ PM_Home \/ PM_Update \/ PM_Command \/ PM_TurnOff
    \/ Mon_Header \/ Mon_Test \/ Mon_Update \/ Mon_Errors \/ Mon_Print
    \/ Mon_Sleep \/ Mon_Final

\* perform_motion and monitor_motion, statement by statement, against the
\* instrument.
NextMotion ==
    \/ PerformMotion
    \/ MonitorMotion
    \/ MotionStep
    \/ \E n \in Axes : InstArrive(n)
    \/ InstFault

SpecMotion == Init /\ [][NextMotion]_vars

\* get_errors on every reply code the instrument can hold.
InitErr ==
    /\ ierr \in 0..MaxCode
    /\ home_pos = [n \in Axes |-> 0]
    /\ inst = [n \in Axes |-> InstInit]
    /\ ax = update_status([n \in Axes |-> AxisInit], inst,
                          [n \in Axes |-> "none"]).ax
    /\ log = << >>
    /\ exc = "none"
    /\ ret = None
    /\ last = [op |-> "__init__", ax |-> 0, arg |-> None]
    /\ calls = 0
    /\ pc = "idle"
    /\ pm = [positions |-> [n \in Axes |-> 0], velocities |-> [n \in Axes |-> 0],
             rel |-> FALSE]
    /\ k = 0
    /\ rows = 0
    /\ sleeps = 0
    /\ polls = 0

SpecErr == InitErr /\ [][GetErrors]_vars

\* get_controller on every list of resources the resource manager can return,
\* before anything else of the interface exists.
ResourceLists == UNION {[1..m -> Candidates] : m \in 0..MaxResources}

InitConnect ==
    /\ home_pos = [n \in Axes |-> 0]
    /\ inst = [n \in Axes |-> InstInit]
    /\ ax = [n \in Axes |-> AxisInit]
    /\ ierr = 0
    /\ log = << >>
    /\ exc = "none"
    /\ ret = None
    /\ last = [op |-> "none", ax |-> 0, arg |-> None]
    /\ calls = 0
    /\ pc = "idle"
    /\ pm = [positions |-> [n \in Axes |-> 0], velocities |-> [n \in Axes |-> 0],
             rel |-> FALSE]
    /\ k = 0
    /\ rows = 0
    /\ sleeps = 0
    /\ polls = 0

GetController ==
    \E resources \in ResourceLists :
        LET r == get_controller(resources)
        IN  /\ pc = "idle"
            /\ calls < MaxCalls
            /\ log' = r.out
            /\ exc' = r.exc
            /\ ret' = r.ret
            /\ last' = [op |-> "get_controller", ax |-> 0, arg |-> Some(resources)]
            /\ calls' = calls + 1
            /\ UNCHANGED <<ax, home_pos, inst, ierr, pc, pm, k, rows, sleeps, polls>>

SpecConnect == InitConnect /\ [][GetController]_vars

\* ------------------------------------------------------------------ claims

\* perform_motion([23, 23, 23], [0.05, 0.05, 0.05]), the end-to-end scenario.
Scenario == [positions |-> [n \in Axes |-> 23], velocities |-> [n \in Axes |-> 5],
             rel |-> FALSE]

\* A step that is a call of op on axis n.
IsCall(op, n) == calls' = calls + 1 /\ last'.op = op /\ last'.ax = n

PosCmd(c) == c.kind = "write" /\ c.op \in {"PA", "PR"}

\* C1 (as claimed): on a homed axis n built with home offset h,
\* set_abs_pos(p) with h <= p <= h + 25 succeeds, sends 'nPAp' and records the
\* destination p; any other p fails with the out-of-range error, sends
\* nothing and leaves the destination as it was.
C1_RangeFollowsHomeOffset ==
    [][\A n \in Axes :
        (IsCall("set_abs_pos", n) /\ ax[n].homed) =>
            LET p == Val(last'.arg)
                h == home_pos[n]
            IN  IF h <= p /\ p <= h + TravelRange
                THEN /\ exc' = "none"
                     /\ log' = <<WriteCmd(n, "PA", Some(p))>>
                     /\ ax'[n].des_pos = Some(p)
                ELSE /\ exc' = "OutOfRange"
                     /\ log' = << >>
                     /\ ax'[n].des_pos = ax[n].des_pos]_vars

\* C2 (as claimed): in the end-to-end scenario, with no fault in the
\* instrument, no statement of perform_motion raises an exception.
C2_ScenarioRaisesNothing ==
    (last.op = "perform_motion" /\ pm = Scenario)
        => exc \in {"none", "ControllerFault"}

\* C3 (as claimed): from every state and for every d, set_rel_pos(d) and
\* set_abs_pos(current position + d) end the same way (returning, or raising
\* the same error) and leave the same des_pos and tot_travel_time.
C3_RelEquivalentToAbs ==
    \A n \in Axes : \A d \in RelArgs :
        LET r == set_rel_pos(ax[n], inst[n], n, d)
            a == set_abs_pos(ax[n], inst[n], n, ReplyTP(inst[n]) + d)
        IN  /\ r.exc = a.exc
            /\ r.ax.des_pos = a.ax.des_pos
            /\ r.ax.tot_travel_time = a.ax.tot_travel_time

\* C4 (as claimed): any_axis_moving() is true exactly when some axis's
\* velocity, as of its last refresh, is not zero.
C4_MovingIffVelocityNonzero ==
    any_axis_moving(ax) <=> \E n \in Axes : ax[n].vel # None /\ Val(ax[n].vel) # 0

\* C5 (as claimed): perform_motion reaches its turn-off commands only after a
\* monitor-loop refresh, and with no axis of the instrument still in motion.
C5_TurnOffOnlyAtRest ==
    pc = "pm_off" => polls > 0 /\ \A n \in Axes : ~inst[n].moving

\* C6: get_errors on the reply 'code,timestamp,text': code 0 gives
\* (False, None); a nonzero code of fewer than three digits gives True and a
\* text that names no axis; a three-digit code gives True and a text naming
\* the axis that is the code's first digit.
C6_ReadErrorParsing ==
    [][IsCall("get_errors", 0) =>
        LET code == ReplyTB(ierr).code
            r == Val(ret')
        IN  /\ code = <<0>> => r = [occured |-> FALSE, text |-> None]
            /\ (code # <<0>> /\ Len(code) < 3) =>
                   r.occured /\ r.text # None /\ Val(r.text).axis = None
            /\ Len(code) = 3 =>
                   r.occured /\ r.text # None /\ Val(r.text).axis = Some(code[1])]_vars

\* get_errors has answered a three-digit code with a text that names axis 1.
C6_Witness ==
    /\ last.op = "get_errors"
    /\ ret = Some([occured |-> TRUE,
                   text |-> Some([axis |-> Some(1), message |-> "text"])])

\* C7: when the error query of a monitor-loop iteration is answered with a
\* nonzero code, the loop ends with the fault in that step: the query is the
\* last command of the call, and no row is printed and no sleep made after it.
C7_FaultAbortsAtOnce ==
    /\ [](exc = "ControllerFault" =>
            pc = "idle" /\ log # << >> /\ log[Len(log)] = QueryCmd(0, "TB?"))
    /\ [][(pc = "mon_err" /\ log' # log /\ ReplyTB(ierr).code # <<0>>) =>
            /\ pc' = "idle"
            /\ exc' = "ControllerFault"
            /\ rows' = rows
            /\ sleeps' = sleeps
            /\ log' = Append(log, QueryCmd(0, "TB?"))]_vars

\* perform_motion has ended with a controller fault raised by its monitor loop.
C7_Witness ==
    last.op = "perform_motion" /\ exc = "ControllerFault" /\ polls > 0

\* A position command on axis n, which is not homed.
UnhomedPosCall(n) ==
    /\ IsCall("set_abs_pos", n) \/ IsCall("set_rel_pos", n)
    /\ ~ax[n].homed

NoPosCmd(l) == \A i \in 1..Len(l) : ~PosCmd(l[i])

\* C8 (as claimed): a position command on an axis that was never homed fails
\* with the not-homed error, whatever the target, and writes no PA or PR.
C8_UnhomedAlwaysNotHomed ==
    [][\A n \in Axes :
        UnhomedPosCall(n) => exc' = "NotHomed" /\ NoPosCmd(log')]_vars

\* C8 (amended): a position command on an axis that was never homed fails and
\* writes no PA or PR; the error is the out-of-range error when the target is
\* outside 0..25 and the not-homed error otherwise.
C8_UnhomedAlwaysFails ==
    [][\A n \in Axes :
        UnhomedPosCall(n) =>
            LET target == IF last'.op = "set_abs_pos" THEN Val(last'.arg)
                          ELSE Val(last'.arg) + ReplyTP(inst[n])
            IN  /\ exc' = IF target < 0 \/ target > TravelRange
                          THEN "OutOfRange" ELSE "NotHomed"
                /\ NoPosCmd(log')]_vars

\* A position command with a target in range has failed on an unhomed axis.
C8_Witness ==
    /\ last.op \in {"set_abs_pos", "set_rel_pos"}
    /\ ~ax[last.ax].homed
    /\ exc = "NotHomed"

\* C9: homed is false after construction, becomes true only by home() on
\* that axis, and once true is never false again.
C9_HomedIsLatch ==
    /\ \A n \in Axes : ~ax[n].homed
    /\ [][\A n \in Axes :
            /\ ax[n].homed => ax'[n].homed
            /\ (~ax[n].homed /\ ax'[n].homed) => IsCall("home", n)]_vars

\* A homed axis has since been turned off and is still homed.
C9_Witness ==
    \E n \in Axes : ax[n].homed /\ last.op = "turn_off" /\ last.ax = n

\* C10 (as claimed): when set_rel_pos fails with the out-of-range error, the
\* call has sent nothing to the transport, neither a write nor a query.
C10_RejectedBeforeAnySend ==
    (last.op = "set_rel_pos" /\ exc = "OutOfRange") => log = << >>

\* C10 (amended): when set_rel_pos fails with the out-of-range error, the call
\* has sent exactly one command, the position query 'nTP', and no write.
C10_RejectedAfterOneQuery ==
    (last.op = "set_rel_pos" /\ exc = "OutOfRange")
        => log = <<QueryCmd(last.ax, "TP")>>

\* set_rel_pos has failed with the out-of-range error.
C10_Witness == last.op = "set_rel_pos" /\ exc = "OutOfRange"

\* C11: stop_all_axes sends exactly one command, the broadcast 'ST' that
\* carries no axis index, and so no per-axis stop.
C11_StopAllIsOneBroadcast ==
    last.op = "stop_all_axes" => log = <<WriteCmd(0, "ST", None)>>

\* stop_all_axes has been called on a controller with an axis turned on and homed.
C11_Witness ==
    /\ last.op = "stop_all_axes"
    /\ \E n \in Axes : ax[n].on = Some(TRUE) /\ ax[n].homed

\* C19: stop_all_axes changes no field of any axis record, so any_axis_moving()
\* returns after it what it returned before.
C19_StopAllKeepsAxisRecords ==
    [][IsCall("stop_all_axes", 0) =>
        /\ ax' = ax
        /\ any_axis_moving(ax') = any_axis_moving(ax)]_vars

\* After stop_all_axes an axis record still says moving, though the instrument
\* has stopped every axis.
C19_Witness ==
    /\ last.op = "stop_all_axes"
    /\ any_axis_moving(ax)
    /\ \A n \in Axes : ~inst[n].moving

\* C15 (as claimed): update_axis on an axis with a pending destination raises
\* nothing, whatever position and velocity were polled (velocity 0 and a
\* destination equal to the position included), and leaves perc_done equal to
\* travel_time / tot_travel_time.
C15_RefreshNeverFails ==
    (last.op = "update_axis" /\ ax[last.ax].des_pos # None) =>
        /\ exc = "none"
        /\ ax[last.ax].travel_time # None
        /\ ax[last.ax].tot_travel_time # None
        /\ Val(ax[last.ax].tot_travel_time)[1] # 0
        /\ ax[last.ax].perc_done =
               Some(RatDiv(Val(ax[last.ax].travel_time),
                           Val(ax[last.ax].tot_travel_time)))

\* C16 (as claimed): whenever set_abs_pos raises (out of range, not homed, or
\* a failure of the travel-time division), it has written no command and has
\* left des_pos and tot_travel_time as they were.
C16_SetAbsPosAllOrNothing ==
    [][\A n \in Axes :
        (IsCall("set_abs_pos", n) /\ exc' # "none") =>
            /\ log' = << >>
            /\ ax'[n].des_pos = ax[n].des_pos
            /\ ax'[n].tot_travel_time = ax[n].tot_travel_time]_vars

\* The opcode of each operation that writes one command to its axis.
OpCode ==
    [set_abs_pos |-> "PA", set_rel_pos |-> "PR", set_vel |-> "VA",
     turn_on |-> "MO", turn_off |-> "MF", home |-> "OR0", stop |-> "ST"]

\* C13: every command sent names the axis the operation was called on, by an
\* index in 1..3 in front of the opcode, except the broadcast 'ST' and the
\* error query 'TB?', which carry none; a call that writes goes out as
\* axis index, opcode, argument, and set_abs_pos(23) on axis 2 as '2PA23'.
C13_CommandsCarryAxisIndex ==
    /\ \A i \in 1..Len(log) :
        /\ \/ log[i].ax \in Axes
           \/ log[i] \in {WriteCmd(0, "ST", None), QueryCmd(0, "TB?")}
        /\ last.ax \in Axes => log[i].ax = last.ax
        /\ last.op = "update_status" => log[i].ax = ((i - 1) \div 4) + 1
        /\ last.ax = 0 /\ last.op # "update_status" => log[i].ax = 0
    /\ (last.op \in DOMAIN OpCode /\ exc = "none") =>
        /\ log # << >>
        /\ Wire(log[Len(log)]) =
               ToString(last.ax) \o OpCode[last.op]
                   \o (IF last.arg = None THEN "" ELSE ToString(Val(last.arg)))
    /\ (last.op = "set_abs_pos" /\ last.ax = 2 /\ last.arg = Some(23)
            /\ exc = "none") => Wire(log[1]) = "2PA23"

\* set_abs_pos(23) has succeeded on axis 2 and has sent one command.
C13_Witness ==
    /\ last.op = "set_abs_pos" /\ last.ax = 2 /\ last.arg = Some(23)
    /\ exc = "none"
    /\ Len(log) = 1

\* The candidates of a list that open and answer '*IDN?' with exactly the
\* expected identity string.
Matching(resources) ==
    {i \in 1..Len(resources) :
        resources[i].opens /\ resources[i].idn = Some(ExpectedId)}

\* C12: get_controller fails with the no-resources error on an empty list;
\* otherwise it returns the first resource, in list order, that opens and
\* answers '*IDN?' with exactly the expected identity, and fails with the
\* not-found error exactly when no resource does.
C12_FirstMatchingResource ==
    last.op = "get_controller" =>
        LET resources == Val(last.arg)
            m == Matching(resources)
        IN  /\ Len(resources) = 0 => exc = "NoResources" /\ ret = None
            /\ (Len(resources) > 0 /\ m = {}) => exc = "NotFound" /\ ret = None
            /\ m # {} =>
                /\ exc = "none"
                /\ Val(ret) \in m
                /\ \A i \in m : Val(ret) <= i
            /\ Len(resources) > 0 => (exc = "NotFound" <=> m = {})

\* get_controller has returned the first of two matching resources, after one
\* that answered with another identity.
C12_Witness ==
    /\ last.op = "get_controller"
    /\ exc = "none"
    /\ Cardinality(Matching(Val(last.arg))) = 2
    /\ ret = Some(2)
    /\ Val(last.arg)[1].idn = Some(OtherId)

IsPrefix(s, t) == Len(s) <= Len(t) /\ SubSeq(t, 1, Len(s)) = s

\* What perform_motion(a) sends for axis n in its loop: the velocity, then the
\* position (a relative move first asks the axis where it is).
CommandsOf(a, n) ==
    <<WriteCmd(n, "VA", Some(a.velocities[n]))>>
        \o (IF a.rel
            THEN <<QueryCmd(n, "TP"), WriteCmd(n, "PR", Some(a.positions[n]))>>
            ELSE <<WriteCmd(n, "PA", Some(a.positions[n]))>>)

RefreshOf(n) ==
    <<QueryCmd(n, "TP"), QueryCmd(n, "TV"), QueryCmd(n, "DV"), QueryCmd(n, "MD")>>

\* What perform_motion sends before it starts the first axis's commands.
SetupSent ==
    <<WriteCmd(1, "MO", None), WriteCmd(2, "MO", None), WriteCmd(3, "MO", None),
      WriteCmd(1, "OR0", None), WriteCmd(2, "OR0", None), WriteCmd(3, "OR0", None)>>
        \o RefreshOf(1) \o RefreshOf(2) \o RefreshOf(3)

\* Everything perform_motion(a) sends before it enters monitor_motion.
ExpectedSent(a) ==
    SetupSent \o CommandsOf(a, 1) \o CommandsOf(a, 2) \o CommandsOf(a, 3)

BeforeMonitor == {"pm_on", "pm_home", "pm_update", "pm_cmd"}
InMonitor == {"mon_header", "mon_test", "mon_update", "mon_err", "mon_print",
              "mon_sleep", "mon_final"}

\* C14: perform_motion sends turn-on to axes 1, 2, 3, home to axes 1, 2, 3, one
\* refresh of all axes, then axis by axis the velocity followed by the
\* position (PA when rel is false, PR when true), and enters the monitor loop
\* only after all of that; so a position command of an axis comes after that
\* axis's turn-on, home and velocity commands.
C14_PerformMotionOrder ==
    last.op = "perform_motion" =>
        /\ pc \in BeforeMonitor => IsPrefix(log, ExpectedSent(pm))
        /\ IsPrefix(log, ExpectedSent(pm)) \/ IsPrefix(ExpectedSent(pm), log)
        /\ pc \in InMonitor \cup {"pm_off"} => IsPrefix(ExpectedSent(pm), log)
        /\ \A i \in 1..Len(log) :
            PosCmd(log[i]) =>
                /\ log[i].op = IF pm.rel THEN "PR" ELSE "PA"
                /\ \E c \in 1..(i - 1) :
                    /\ log[c] = WriteCmd(log[i].ax, "VA",
                                         Some(pm.velocities[log[i].ax]))
                    /\ \E b \in 1..(c - 1) :
                        /\ log[b] = WriteCmd(log[i].ax, "OR0", None)
                        /\ \E a \in 1..(b - 1) :
                            log[a] = WriteCmd(log[i].ax, "MO", None)

\* A relative perform_motion has sent all its commands and stands at the
\* first statement of monitor_motion.
C14_Witness ==
    /\ last.op = "perform_motion"
    /\ pc = "mon_header"
    /\ pm.rel
    /\ log = ExpectedSent(pm)

\* C17 (as claimed): whenever monitor_motion, entered from perform_motion, is
\* about to run print_metrics (header, loop or final print), every axis's pos,
\* vel, des_pos, des_vel, travel_time and perc_done hold a number.
C17_PrintedFieldsAreSet ==
    (last.op = "perform_motion" /\ pc \in {"mon_header", "mon_print", "mon_final"})
        => \A n \in Axes : RowPrints(ax[n])

\* What perform_motion(a) has sent when the target of axis f is rejected: all
\* of the setup, both commands of every axis before f, and the velocity of
\* axis f (followed, in a relative move, by the position query of set_rel_pos).
SentUpTo(a, f) ==
    SetupSent
        \o (IF f > 1 THEN CommandsOf(a, 1) ELSE << >>)
        \o (IF f > 2 THEN CommandsOf(a, 2) ELSE << >>)
        \o <<WriteCmd(f, "VA", Some(a.velocities[f]))>>
        \o (IF a.rel THEN <<QueryCmd(f, "TP")>> ELSE << >>)

\* C18: when perform_motion ends with the out-of-range error of a position
\* command, there is an axis f such that the axes before f were sent velocity
\* and position, axis f its velocity only and the axes after f nothing, and no
\* 'ST' and no 'MF' was sent.
C18_RejectedTargetLeavesPartialCommands ==
    (last.op = "perform_motion" /\ pc = "idle" /\ exc = "OutOfRange") =>
        /\ \E f \in Axes :
            /\ log = SentUpTo(pm, f)
            /\ ~pm.rel => OutOfRange(pm.positions[f])
        /\ \A i \in 1..Len(log) : log[i].op \notin {"ST", "MF"}

\* perform_motion has failed on the target of axis 2, after commanding axis 1.
C18_Witness ==
    /\ last.op = "perform_motion" /\ pc = "idle" /\ exc = "OutOfRange"
    /\ log = SentUpTo(pm, 2)

====
